---- MODULE Spec2Model ----
(***************************************************************************)
(* The hierarchical file store of the CipherStudio backend: the File       *)
(* collection with its two unique indexes, the File model's recursive      *)
(* methods (moveTo, updateChildrenPaths, deleteRecursively, buildFileTree) *)
(* and the request handlers of fileController.js and projectController.js. *)
(* A request is a sequence of steps, one per awaited store operation; the  *)
(* code between two awaits runs without interruption.                      *)
(***************************************************************************)
EXTENDS Integers, Sequences, FiniteSets, TLC

\* ---------------------------------------------------------------- bounds
\* Number of requests received in one behaviour.
MaxRequests == 3
\* Number of File documents that can ever be inserted (ids are never reused).
MaxNodes == 3
\* Number of Project documents that can ever be created.
MaxProjects == 2
\* Failure injection reaches the first MaxFailAt writes of a request.
MaxFailAt == 2
\* Longest path the store is asked to hold, and deepest recursion followed.
MaxPathLen == 3 * MaxNodes + 2
\* A recursion over parentId links that is deeper than the number of documents
\* has met a document twice and never returns.
MaxDepth == MaxNodes + 1

Ids == 1..MaxNodes
ProjectIds == 1..MaxProjects
\* A well-formed ObjectId that names no document.
Ghost == MaxNodes + 1
\* parentId null in the store; a request field that was not sent.
Null == 0
Absent == 0 - 1
NoName == <<>>

\* ----------------------------------------------------------------- names
\* Strings are sequences of characters. Every name below passes the name
\* pattern of fileValidation (validation.js:191).
Names == { <<"a">>, <<"a", "$", "&">> }
Slots == {1, 2}
Slash == <<"/">>

NoFile == [name |-> <<>>, projectId |-> 0, parentId |-> Null,
           type |-> "none", path |-> <<>>]

\* File lists a client may send with createProject: path, name, type and
\* whether the entry carries a language of the schema's enum.
ClientLists ==
  { <<>>,
    << [path |-> <<"a">>, name |-> <<"a">>, type |-> "folder", lang |-> TRUE] >>,
    << [path |-> <<"a">>, name |-> <<"a">>, type |-> "folder", lang |-> TRUE],
       [path |-> <<"a", "$", "&">>, name |-> <<"a", "$", "&">>, type |-> "file",
        lang |-> TRUE] >>,
    << [path |-> <<"a", "/", "a">>, name |-> <<"a">>, type |-> "file", lang |-> TRUE] >> }

\* files: the File collection; nextId, nProjects: the ids handed out so far;
\* req: the request of each slot; nReq: the number of requests received;
\* contents: the content fields of each document of the File collection
\* (content, metadata.version, s3Key); s3: the object stored under the s3Key
\* of each document, NoContent when there is none; totalFiles: the
\* metadata.totalFiles of each project; owner: the userId of each project;
\* editor: the state of the useProject hook of the editor.
VARIABLES files, nextId, nProjects, req, nReq, contents, s3, totalFiles, owner,
          editor

vars == <<files, nextId, nProjects, req, nReq, contents, s3, totalFiles, owner,
          editor>>

\* The users that send requests; NoUser owns the projects not yet created.
Users == {1, 2}
NoUser == 0

\* Contents are numbered; NoContent is the empty string and the missing
\* object.
NoContent == 0
Contents == {1, 2}

\* The defaults of the schema: content "", s3Key null; version counts the
\* increments of metadata.version since File.create.
NoBlob == [content |-> NoContent, version |-> 0, s3Key |-> FALSE]

\* ------------------------------------------------------- string helpers
Join(base, name) == IF base = <<>> THEN name ELSE base \o Slash \o name

\* pre is a prefix of p.
StartsWith(p, pre) == Len(p) >= Len(pre) /\ SubSeq(p, 1, Len(pre)) = pre

\* Index of the first occurrence of pat in s, 0 when there is none.
IndexOf(s, pat) ==
  LET hits == { i \in 1..(Len(s) - Len(pat) + 1) :
                  SubSeq(s, i, i + Len(pat) - 1) = pat }
  IN IF hits = {} THEN 0 ELSE CHOOSE i \in hits : \A j \in hits : i <= j

\* The replacement string of String.prototype.replace: $$ is a dollar sign
\* and $& the matched text (the other patterns need characters that no name
\* of Names holds).
RECURSIVE Expand(_, _)
Expand(rep, matched) ==
  IF rep = <<>> THEN <<>>
  ELSE IF Len(rep) >= 2 /\ rep[1] = "$" /\ rep[2] \in {"$", "&"}
    THEN (IF rep[2] = "$" THEN <<"$">> ELSE matched)
         \o Expand(SubSeq(rep, 3, Len(rep)), matched)
    ELSE <<rep[1]>> \o Expand(Tail(rep), matched)

\* s.replace(pat, rep) with a string pattern: the first occurrence only.
Replace(s, pat, rep) ==
  LET i == IndexOf(s, pat)
  IN IF i = 0 THEN s
     ELSE SubSeq(s, 1, i - 1)
          \o Expand(rep, pat)
          \o SubSeq(s, i + Len(pat), Len(s))

\* ------------------------------------------------- the editor's file map
\* useProject keeps the open project as an object from paths to contents.
\* An object lists its keys in insertion order, so the map is a sequence of
\* entries with distinct paths; contents are strings, "" being <<>>.
EditorPaths == { <<"a">>, <<"/", "a">>, <<"/", "b">>, <<"/", "a", "/", "b">> }
EditorContents == { <<>>, <<"x">> }

\* The default of the content parameter of createFile.
NewFileContent(path) ==
  <<"/", "/", " ", "n", "e", "w", " ", "f", "i", "l", "e", " ">>
    \o path \o <<"\n">>

\* path.startsWith("/") ? path : `/${path}`
NormalizePath(path) == IF StartsWith(path, Slash) THEN path ELSE Slash \o path

\* Object.keys(m), and the keys as a set.
Keys(m) == [i \in 1..Len(m) |-> m[i].path]
KeySet(m) == { m[i].path : i \in 1..Len(m) }

\* m[k] of an own key k.
Get(m, k) == m[CHOOSE i \in 1..Len(m) : m[i].path = k].content

\* if (m[k]): a missing key reads undefined and "" is falsy as well.
Truthy(m, k) == k \in KeySet(m) /\ Get(m, k) # <<>>

\* m[k] = v: an own key keeps its place, a new key goes last.
Set(m, k, v) ==
  IF k \in KeySet(m)
    THEN [i \in 1..Len(m) |->
            IF m[i].path = k THEN [m[i] EXCEPT !.content = v] ELSE m[i]]
    ELSE Append(m, [path |-> k, content |-> v])

\* delete m[k]
Delete(m, k) == SelectSeq(m, LAMBDA e : e.path # k)

\* The keys a call on path p covers: p itself and the keys under p + "/".
KeysUnder(m, p) ==
  SelectSeq(Keys(m), LAMBDA k : k = p \/ StartsWith(k, p \o Slash))

\* newNormalized + k.slice(oldNormalized.length)
RenameTarget(k, oldN, newN) == newN \o SubSeq(k, Len(oldN) + 1, Len(k))

\* keysToRename.forEach on the copy: the target takes the content of the
\* key and the key is deleted, one key after the other.
RECURSIVE RenameKeys(_, _, _, _)
RenameKeys(copy, ks, oldN, newN) ==
  IF ks = <<>> THEN copy
  ELSE RenameKeys(Delete(Set(copy, RenameTarget(Head(ks), oldN, newN),
                             Get(copy, Head(ks))),
                         Head(ks)),
                  Tail(ks), oldN, newN)

NoCall == [op |-> "none", path |-> <<>>, newPath |-> <<>>, content |-> <<>>]

\* The hook after a project with one file was loaded.
EditorInit ==
  [files |-> << [path |-> <<"/", "a">>, content |-> <<"x">>] >>,
   activePath |-> <<"/", "a">>,
   hasUnsavedChanges |-> FALSE,
   call |-> NoCall,
   thrown |-> "",
   n |-> 0]

\* A call of the hook: the state it leaves, the call and what it threw.
Called(e, op, path, newPath, content, thrown) ==
  [e EXCEPT !.call = [op |-> op, path |-> path, newPath |-> newPath,
                      content |-> content],
            !.thrown = thrown,
            !.n = @ + 1]

updateFile(e, path, content) ==
  Called([e EXCEPT !.files = Set(@, path, content),
                   !.hasUnsavedChanges = TRUE],
         "updateFile", path, <<>>, content, "")

createFile(e, path, content) ==
  LET normalizedPath == NormalizePath(path)
  IN IF Truthy(e.files, normalizedPath)
       THEN Called(e, "createFile", path, <<>>, content, "File already exists")
       ELSE Called([e EXCEPT !.files = Set(@, normalizedPath, content),
                             !.activePath = normalizedPath,
                             !.hasUnsavedChanges = TRUE],
                   "createFile", path, <<>>, content, "")

deleteFile(e, path) ==
  LET normalizedPath == NormalizePath(path)
      keysToDelete == KeysUnder(e.files, normalizedPath)
      remaining == SelectSeq(e.files, LAMBDA f : f.path # normalizedPath
                               /\ ~StartsWith(f.path, normalizedPath \o Slash))
  IN IF keysToDelete = <<>>
       THEN Called(e, "deleteFile", path, <<>>, <<>>, "")
       ELSE Called([e EXCEPT !.files = remaining,
                             !.activePath = IF remaining = <<>> THEN <<>>
                                            ELSE remaining[1].path],
                   "deleteFile", path, <<>>, <<>>, "")

renameFile(e, oldPath, newPath) ==
  LET oldNormalized == NormalizePath(oldPath)
      newNormalized == NormalizePath(newPath)
      keysToRename == KeysUnder(e.files, oldNormalized)
      conflicts == SelectSeq(keysToRename, LAMBDA k :
                     Truthy(e.files, RenameTarget(k, oldNormalized, newNormalized)))
      moved == e.activePath # <<>>
               /\ (e.activePath = oldNormalized
                   \/ StartsWith(e.activePath, oldNormalized \o Slash))
  IN IF keysToRename = <<>>
       THEN Called(e, "renameFile", oldPath, newPath, <<>>, "File not found")
     ELSE IF conflicts # <<>>
       THEN Called(e, "renameFile", oldPath, newPath, <<>>,
                   "Target file already exists")
     ELSE Called([e EXCEPT !.files = RenameKeys(@, keysToRename, oldNormalized,
                                                newNormalized),
                           !.activePath =
                              IF moved
                                THEN RenameTarget(@, oldNormalized, newNormalized)
                                ELSE @],
                 "renameFile", oldPath, newPath, <<>>, "")

\* ----------------------------------------------------------- the store
Exists(fs, i) == i \in Ids /\ fs[i].type # "none"
Live(fs) == { i \in Ids : fs[i].type # "none" }

\* The unique indexes { projectId, path } and { projectId, name, parentId }.
PathIndexOk(fs, i, doc) ==
  \A j \in Live(fs) \ {i} :
     ~(fs[j].projectId = doc.projectId /\ fs[j].path = doc.path)

NameIndexOk(fs, i, doc) ==
  \A j \in Live(fs) \ {i} :
     ~(fs[j].projectId = doc.projectId /\ fs[j].name = doc.name
       /\ fs[j].parentId = doc.parentId)

IndexOk_PathOnly(fs, i, doc) == PathIndexOk(fs, i, doc)

IndexOk_Off(fs, i, doc) == TRUE

IndexOk(fs, i, doc) == PathIndexOk(fs, i, doc) /\ NameIndexOk(fs, i, doc)

\* File.findOne({ projectId, path, _id: { $ne: id } }) finds a document.
PathTaken(fs, p, path, except) ==
  \E j \in Live(fs) \ {except} : fs[j].projectId = p /\ fs[j].path = path

\* File.find({ parentId: id }) in the order of insertion.
RECURSIVE SeqOfSet(_)
SeqOfSet(S) ==
  IF S = {} THEN <<>>
  ELSE LET m == CHOOSE i \in S : \A j \in S : i <= j
       IN <<m>> \o SeqOfSet(S \ {m})

ChildIds(fs, id) == { j \in Live(fs) : fs[j].parentId = id }

ChildDocs(fs, id) ==
  LET s == SeqOfSet(ChildIds(fs, id))
  IN [k \in 1..Len(s) |-> [id |-> s[k], path |-> fs[s[k]].path, type |-> fs[s[k]].type]]

\* ------------------------------------------------------------- requests
\* A request: its operation and inputs, the position pc of its handler, the
\* handler's local variables and, once answered, its result res. failAt = k > 0
\* makes the k-th write of the request fail in the store; 0 injects no failure.
\* alone is the answer the request gets when nothing runs beside it, kept for
\* requests that race.
NotRaced == [res |-> "", path |-> <<>>, projectId |-> 0]

Idle == [op |-> "none", pc |-> "idle", id |-> 0, name |-> NoName,
         parentId |-> Absent, type |-> "file", projectId |-> 0,
         file |-> NoFile, mod |-> {}, oldPath |-> <<>>, newPath |-> <<>>,
         stack |-> <<>>, list |-> <<>>, k |-> 0, map |-> <<>>, target |-> 0,
         res |-> "", failAt |-> 0, changed |-> FALSE, alone |-> NotRaced,
         content |-> Absent, user |-> 1]

\* The store and one request: what a step of a handler reads and writes.
Ctx(fs, nid, np, r) ==
  [files |-> fs, nextId |-> nid, nProjects |-> np, r |-> r,
   contents |-> contents, s3 |-> s3, totalFiles |-> totalFiles,
   owner |-> owner]

\* The request is answered with result res; its locals are dropped.
Fin(c, res) ==
  [c EXCEPT !.r = [Idle EXCEPT !.op = c.r.op, !.pc = "done", !.id = c.r.id,
                     !.name = c.r.name, !.parentId = c.r.parentId,
                     !.type = c.r.type, !.projectId = c.r.projectId,
                     !.oldPath = c.r.oldPath, !.newPath = c.r.newPath,
                     !.res = res, !.alone = c.r.alone,
                     !.content = c.r.content, !.user = c.r.user]]

\* The recursion is deeper than MaxDepth: the request is never answered; res
\* keeps the pc it was at.
Diverge(c) == [c EXCEPT !.r.pc = "diverged", !.r.res = c.r.pc]

To(c, pc) == [c EXCEPT !.r.pc = pc]

\* The next write of the request fails in the store.
WriteFails(c) == c.r.failAt = 1

\* A write went through.
Wrote(c) == [c EXCEPT !.r.failAt = IF @ > 0 THEN @ - 1 ELSE 0]

\* ------------------------------------------------------- createProject
\* projectController.js createProject: entries without a path or a name are
\* skipped before anything is awaited.
RECURSIVE DropSkipped(_)
DropSkipped(list) ==
  IF list = <<>> THEN <<>>
  ELSE IF Head(list).path = <<>> \/ Head(list).name = <<>>
    THEN DropSkipped(Tail(list))
    ELSE list

\* Project.create; no template of defaultTemplates is requested, so an empty
\* file list leaves the project empty.
CreateProjectCreate(c) ==
  LET rest == DropSkipped(c.r.list)
  IN [c EXCEPT !.nProjects = @ + 1,
               !.owner = [@ EXCEPT ![c.nProjects + 1] = c.r.user],
               !.r.projectId = c.nProjects + 1,
               !.r.list = rest,
               !.r.pc = IF rest = <<>> THEN "cp_meta" ELSE "cp_file"]

\* new File({ name, projectId, path, type, ... }).save() inside try/catch:
\* parentId is never given, a failed save is logged and the loop goes on.
CreateProjectFile(c) ==
  LET e == Head(c.r.list)
      doc == [name |-> e.name, projectId |-> c.r.projectId,
              parentId |-> Null, type |-> e.type, path |-> e.path]
      saved == e.lang /\ ~WriteFails(c) /\ IndexOk(c.files, c.nextId, doc)
      rest == DropSkipped(Tail(c.r.list))
      c2 == IF e.lang THEN Wrote(c) ELSE c
  IN [c2 EXCEPT !.files = IF saved THEN [@ EXCEPT ![c.nextId] = doc] ELSE @,
                !.nextId = IF saved THEN @ + 1 ELSE @,
                !.r.list = rest,
                !.r.pc = IF rest = <<>> THEN "cp_meta" ELSE "cp_file"]

\* The documents of project p, of every type or of one.
CountDocuments(fs, p, types) ==
  Cardinality({ i \in Live(fs) : fs[i].projectId = p /\ fs[i].type \in types })

\* project.metadata.totalFiles = n; project.save(). The count and the save
\* that follows it are taken as one step.
SaveTotal(c, n) ==
  Fin([c EXCEPT !.totalFiles = [@ EXCEPT ![c.r.projectId] = n]], "ok")

\* File.countDocuments({ projectId: project._id }), project.save
CreateProjectMeta(c) ==
  SaveTotal(c, CountDocuments(c.files, c.r.projectId, {"file", "folder"}))

\* ---------------------------------------------------------- createFile
\* Project.findById(projectId); filePath = name when no parentId is sent.
CreateFileProject(c) ==
  IF c.r.projectId > c.nProjects
    THEN Fin(c, "notfound")
    ELSE IF c.owner[c.r.projectId] # c.r.user
      THEN Fin(c, "denied")
    ELSE IF c.r.parentId # Absent
      THEN To(c, "cf_parent")
      ELSE [c EXCEPT !.r.pc = "cf_exists", !.r.newPath = c.r.name]

\* The parent is checked and its path is left out of the new node's path.
CreateFileParent_NoBase(c) ==
  LET par == c.r.parentId
  IN IF ~Exists(c.files, par)
       THEN Fin(c, "notfound")
       ELSE IF c.files[par].type # "folder"
         THEN Fin(c, "badparent")
         ELSE [c EXCEPT !.r.pc = "cf_exists", !.r.newPath = c.r.name]

\* File.findById(parentId): the parent must exist and be a folder.
CreateFileParent(c) ==
  LET par == c.r.parentId
  IN IF ~Exists(c.files, par)
       THEN Fin(c, "notfound")
       ELSE IF c.files[par].type # "folder"
         THEN Fin(c, "badparent")
         ELSE [c EXCEPT !.r.pc = "cf_exists",
                        !.r.newPath = c.files[par].path \o Slash \o c.r.name]

\* The insert is tried without looking for a node at the path first.
CreateFileExists_Skip(c) == To(c, "cf_insert")

\* File.findOne({ projectId, path: filePath })
CreateFileExists(c) ==
  IF PathTaken(c.files, c.r.projectId, c.r.newPath, 0)
    THEN Fin(c, "conflict")
    ELSE To(c, "cf_insert")

\* if (type === "file" && content): the content is uploaded under a new key
\* and the document keeps the key. Uploads succeed; an object whose document
\* is not created afterwards stays under a key no document holds.
CreateFileUploads(r) == r.type = "file" /\ r.content \notin {Absent, NoContent}

\* content: type === "file" ? content : ""
CreateFileBlob(r) ==
  [content |-> IF r.type = "file" /\ r.content # Absent THEN r.content
               ELSE NoContent,
   version |-> 0,
   s3Key |-> CreateFileUploads(r)]

\* File.create({ name, projectId, parentId: parentId || null, type, path,
\* s3Key, content })
CreateFileInsert(c) ==
  LET doc == [name |-> c.r.name, projectId |-> c.r.projectId,
              parentId |-> IF c.r.parentId = Absent THEN Null ELSE c.r.parentId,
              type |-> c.r.type, path |-> c.r.newPath]
  IN IF WriteFails(c) THEN Fin(c, "error")
     ELSE IF ~IndexOk(c.files, c.nextId, doc) THEN Fin(c, "dupkey")
     ELSE [Wrote(c) EXCEPT !.files = [@ EXCEPT ![c.nextId] = doc],
                           !.contents = [@ EXCEPT ![c.nextId] = CreateFileBlob(c.r)],
                           !.s3 = [@ EXCEPT ![c.nextId] =
                                     IF CreateFileUploads(c.r) THEN c.r.content
                                     ELSE @],
                           !.nextId = @ + 1,
                           !.r.id = c.nextId,
                           !.r.pc = "cf_meta"]

\* File.countDocuments({ projectId, type: "file" }), File.aggregate,
\* project.save
CreateFileMeta(c) ==
  SaveTotal(c, CountDocuments(c.files, c.r.projectId, {"file"}))

\* --------------------------------------------- recursion over the children
\* A frame of updateChildrenPaths, deleteRecursively or getAllFilesInFolder:
\* the document the method runs on, the old and new base path (cascade only),
\* whether File.find({ parentId }) has answered, and the children it found
\* (snapshots of id, path and type) that the loop has not reached yet.
Frame(node, type, old, new) ==
  [node |-> node, type |-> type, old |-> old, new |-> new,
   fetched |-> FALSE, todo |-> <<>>]

WithoutTop(st) == SubSeq(st, 1, Len(st) - 1)

\* ------------------------------------------- updateChildrenPaths (cascade)
\* A frame whose loop is over returns to its caller.
RECURSIVE PopFinished(_)
PopFinished(st) ==
  IF st = <<>> THEN st
  ELSE LET top == st[Len(st)]
       IN IF top.fetched /\ top.todo = <<>>
            THEN PopFinished(WithoutTop(st))
            ELSE st

\* A find by path prefix in place of the find by parentId.
CascadeFind_ByPrefix(st, fs) ==
  LET n == Len(st)
      s == SeqOfSet({ j \in Live(fs) \ {st[n].node} : StartsWith(fs[j].path, st[n].old) })
  IN PopFinished([st EXCEPT ![n].fetched = TRUE,
                            ![n].todo = [k \in 1..Len(s) |->
                               [id |-> s[k], path |-> fs[s[k]].path,
                                type |-> fs[s[k]].type]]])

\* const children = await this.constructor.find({ parentId: this._id })
CascadeFind(st, fs) ==
  LET n == Len(st)
  IN PopFinished([st EXCEPT ![n].fetched = TRUE,
                            ![n].todo = ChildDocs(fs, st[n].node)])

\* child.path = child.path.replace(oldBasePath, newBasePath)
CascadeChildPath(frame) == Replace(Head(frame.todo).path, frame.old, frame.new)

\* After child.save(): the loop moves on, through the child's own children
\* first when the child is a folder.
CascadeSaved(st) ==
  LET n == Len(st)
      ch == Head(st[n].todo)
      rest == [st EXCEPT ![n].todo = Tail(st[n].todo)]
  IN IF ch.type = "folder"
       THEN rest \o <<Frame(ch.id, ch.type, ch.path, CascadeChildPath(st[n]))>>
       ELSE PopFinished(rest)

\* The stack after one more awaited operation; after is the pc that follows
\* the whole recursion.
Continue(c, st, after) ==
  IF Len(st) > MaxDepth THEN Diverge(c)
  ELSE [c EXCEPT !.r.stack = st, !.r.pc = IF st = <<>> THEN after ELSE @]

\* One awaited operation of the cascade. A save that changes nothing is not
\* sent to the store; a save of a document that is gone, or one that breaks a
\* unique index, throws.
CascadeStep(c, after) ==
  LET st == c.r.stack
      top == st[Len(st)]
  IN IF ~top.fetched
       THEN Continue(c, CascadeFind(st, c.files), after)
       ELSE LET ch == Head(top.todo)
                np == CascadeChildPath(top)
            IN IF Len(np) > MaxPathLen THEN To(c, "toolong")
               ELSE IF np = ch.path THEN Continue(c, CascadeSaved(st), after)
               ELSE IF WriteFails(c) \/ ~Exists(c.files, ch.id) THEN Fin(c, "error")
               ELSE IF ~IndexOk(c.files, ch.id, [c.files[ch.id] EXCEPT !.path = np])
                 THEN Fin(c, "dupkey")
               ELSE Continue([Wrote(c) EXCEPT !.files = [@ EXCEPT ![ch.id].path = np]],
                             CascadeSaved(st), after)

\* The modified fields of the local document are written to the stored one.
Written(stored, local, mod) ==
  [stored EXCEPT !.name = IF "name" \in mod THEN local.name ELSE @,
                 !.path = IF "path" \in mod THEN local.path ELSE @,
                 !.parentId = IF "parentId" \in mod THEN local.parentId ELSE @]

\* A missing document answered as a success.
AuthorizeFile_Silent(c, pcNext) ==
  IF Exists(c.files, c.r.id) THEN To(c, pcNext) ELSE Fin(c, "ok")

\* file.projectId.userId.toString() !== req.user._id.toString()
Denied(c) == c.owner[c.files[c.r.id].projectId] # c.r.user

\* authorizeFile (auth.js): File.findById(req.params.id).populate("projectId")
AuthorizeFile(c, pcNext) ==
  IF ~Exists(c.files, c.r.id) THEN Fin(c, "notfound")
  ELSE IF Denied(c) THEN Fin(c, "denied")
  ELSE To(c, pcNext)

\* ---------------------------------------------------------- updateFile
\* if (parentId !== undefined && parentId !== file.parentId?.toString())
UpdateFileMoves(r, file) == r.parentId # Absent /\ r.parentId # file.parentId

\* The pc after the content section, with the local document as it is then.
UpdateFileAfterContent(r, file) ==
  IF UpdateFileMoves(r, file) THEN "uf_mparent" ELSE "uf_save"

\* The pc after the rename section:
\* if (content !== undefined && file.type === "file")
UpdateFileAfterRename(r, file) ==
  IF r.content # Absent /\ file.type = "file"
    THEN "uf_content" ELSE UpdateFileAfterContent(r, file)

\* The content section: with an s3Key the content is uploaded under it at
\* once; file.content and file.metadata.version change in the local
\* document and are stored by file.save(). Uploads succeed.
UpdateFileContent(c) ==
  LET id == c.r.id
  IN [c EXCEPT !.s3 = IF c.contents[id].s3Key
                        THEN [@ EXCEPT ![id] = c.r.content] ELSE @,
               !.r.mod = @ \cup {"content"},
               !.r.pc = UpdateFileAfterContent(c.r, c.r.file)]

\* File.findById(req.params.id); oldPath = newPath = file.path
UpdateFileLoad(c) ==
  IF ~Exists(c.files, c.r.id)
    THEN Fin(c, "notfound")
    ELSE IF Denied(c) THEN Fin(c, "denied")
    ELSE LET file == c.files[c.r.id]
             r == [c.r EXCEPT !.file = file, !.oldPath = file.path,
                              !.newPath = file.path, !.projectId = file.projectId,
                              !.type = file.type]
         IN IF r.name # NoName /\ r.name # file.name
              THEN IF file.parentId # Null
                     THEN [c EXCEPT !.r = [r EXCEPT !.pc = "uf_nparent"]]
                     ELSE [c EXCEPT !.r = [r EXCEPT !.pc = "uf_nexists",
                                                    !.newPath = r.name]]
              ELSE [c EXCEPT !.r = [r EXCEPT !.pc = UpdateFileAfterRename(r, file)]]

\* (await File.findById(file.parentId)).path throws when the parent is gone.
UpdateFileNameParent(c) ==
  LET par == c.r.file.parentId
  IN IF ~Exists(c.files, par)
       THEN Fin(c, "error")
       ELSE [c EXCEPT !.r.pc = "uf_nexists",
                      !.r.newPath = Join(c.files[par].path, c.r.name)]

\* File.findOne({ projectId, path: newPath, _id: { $ne: file._id } })
UpdateFileNameExists(c) ==
  IF PathTaken(c.files, c.r.projectId, c.r.newPath, c.r.id)
    THEN Fin(c, "conflict")
    ELSE LET file == [c.r.file EXCEPT !.name = c.r.name, !.path = c.r.newPath]
         IN [c EXCEPT !.r.file = file,
                      !.r.mod = @ \cup {"name", "path"},
                      !.r.pc = UpdateFileAfterRename(c.r, file)]

\* File.findById(parentId): the new parent must exist and be a folder.
UpdateFileMoveParent(c) ==
  LET par == c.r.parentId
  IN IF ~Exists(c.files, par) \/ c.files[par].type # "folder"
       THEN Fin(c, "badparent")
       ELSE [c EXCEPT !.r.pc = "uf_mexists",
                      !.r.newPath = c.files[par].path \o Slash \o c.r.file.name]

UpdateFileMoveExists(c) ==
  IF PathTaken(c.files, c.r.projectId, c.r.newPath, c.r.id)
    THEN Fin(c, "conflict")
    ELSE [c EXCEPT !.r.file = [@ EXCEPT !.parentId = c.r.parentId,
                                        !.path = c.r.newPath],
                   !.r.mod = (@ \cup {"parentId"})
                             \cup (IF c.r.newPath # c.r.file.path
                                     THEN {"path"} ELSE {}),
                   !.r.pc = "uf_save"]

\* file.metadata.version += 1 in the handler, and once more in the pre-save
\* hook when isModified("content"): when the content differs from the
\* stored one.
Saved(blob, content) ==
  [blob EXCEPT !.content = content,
               !.version = @ + 1 + (IF content # blob.content THEN 1 ELSE 0)]

\* await file.save(), then the cascade when a folder's path changed.
UpdateFileSave(c) ==
  LET id == c.r.id
  IN IF Len(c.r.newPath) > MaxPathLen THEN To(c, "toolong")
     ELSE IF WriteFails(c) \/ ~Exists(c.files, id) THEN Fin(c, "error")
     ELSE LET doc == Written(c.files[id], c.r.file, c.r.mod)
          IN IF ~IndexOk(c.files, id, doc) THEN Fin(c, "dupkey")
             ELSE LET c2 == [Wrote(c) EXCEPT
                               !.files = [@ EXCEPT ![id] = doc],
                               !.contents =
                                 IF "content" \in c.r.mod
                                   THEN [@ EXCEPT ![id] = Saved(@, c.r.content)]
                                   ELSE @]
                  IN IF c.r.type = "folder" /\ c.r.newPath # c.r.oldPath
                       THEN [c2 EXCEPT !.r.pc = "uf_cascade",
                               !.r.stack = <<Frame(id, c.r.type, c.r.oldPath,
                                                   c.r.newPath)>>]
                       ELSE To(c2, "uf_meta")

\* Project.findById, project.save
UpdateFileMeta(c) == Fin(c, "ok")

\* ------------------------------------------------------ moveFile / moveTo
\* moveTo from its first line to the await of this.save(): newParent is the
\* document found for newParentId, NoFile when there is none.
MoveToLocal(file, newParentId, newName, newParent) ==
  LET basePath == IF newParent.type # "none" THEN newParent.path ELSE <<>>
      name == IF newName # NoName THEN newName ELSE file.name
  IN [file EXCEPT !.parentId = IF newParentId = Absent THEN Null ELSE newParentId,
                  !.name = name,
                  !.path = IF basePath # <<>> THEN basePath \o Slash \o name ELSE name]

MoveToMod(file, local) ==
  { f \in {"name", "path", "parentId"} : file[f] # local[f] }

\* File.findById(req.params.id), then moveTo up to its first await.
MoveFileLoad(c) ==
  IF ~Exists(c.files, c.r.id)
    THEN Fin(c, "notfound")
    ELSE IF Denied(c) THEN Fin(c, "denied")
    ELSE LET file == c.files[c.r.id]
             r == [c.r EXCEPT !.file = file, !.oldPath = file.path,
                              !.projectId = file.projectId, !.type = file.type]
         IN IF r.parentId # Absent
              THEN [c EXCEPT !.r = [r EXCEPT !.pc = "mf_parent"]]
              ELSE LET local == MoveToLocal(file, Absent, r.name, NoFile)
                   IN [c EXCEPT !.r = [r EXCEPT !.pc = "mf_save", !.file = local,
                                                !.mod = MoveToMod(file, local),
                                                !.newPath = local.path]]

\* newParent = await this.constructor.findById(newParentId)
MoveFileParent(c) ==
  LET par == c.r.parentId
      newParent == IF Exists(c.files, par) THEN c.files[par] ELSE NoFile
      local == MoveToLocal(c.r.file, par, c.r.name, newParent)
  IN [c EXCEPT !.r.pc = "mf_save", !.r.file = local,
               !.r.mod = MoveToMod(c.r.file, local),
               !.r.newPath = local.path]

\* await this.save(), then updateChildrenPaths for every folder.
MoveFileSave(c) ==
  LET id == c.r.id
      cascade == [c EXCEPT !.r.pc = "mf_cascade",
                    !.r.stack = <<Frame(id, c.r.type, c.r.oldPath, c.r.newPath)>>]
  IN IF Len(c.r.newPath) > MaxPathLen THEN To(c, "toolong")
     ELSE IF c.r.mod = {}
       THEN (IF c.r.type = "folder" THEN cascade ELSE Fin(c, "ok"))
     ELSE IF WriteFails(c) \/ ~Exists(c.files, id) THEN Fin(c, "error")
     ELSE LET doc == Written(c.files[id], c.r.file, c.r.mod)
          IN IF ~IndexOk(c.files, id, doc) THEN Fin(c, "dupkey")
             ELSE LET c2 == [Wrote(c) EXCEPT !.files = [@ EXCEPT ![id] = doc]]
                  IN IF c.r.type = "folder"
                       THEN [c2 EXCEPT !.r.pc = "mf_cascade",
                               !.r.stack = <<Frame(id, c.r.type, c.r.oldPath,
                                                   c.r.newPath)>>]
                       ELSE Fin(c2, "ok")

\* ---------------------------------------------------------- deleteFile
\* getAllFilesInFolder: only folders are entered (no document holds an s3Key
\* here, so no key is collected).
FolderDocs(fs, id) == SelectSeq(ChildDocs(fs, id), LAMBDA d : d.type = "folder")

\* The loop over the children found: the next folder is entered, a frame
\* whose loop is over returns.
RECURSIVE CollectNext(_)
CollectNext(st) ==
  IF st = <<>> THEN st
  ELSE LET n == Len(st)
           top == st[n]
       IN IF top.todo = <<>>
            THEN CollectNext(WithoutTop(st))
            ELSE [st EXCEPT ![n].todo = Tail(top.todo)]
                 \o <<Frame(Head(top.todo).id, "folder", <<>>, <<>>)>>

\* deleteRecursively on the top frame's document: the next child is entered
\* when there is one; otherwise the frame waits for its deleteOne.
DeleteNext(st) ==
  IF st = <<>> THEN st
  ELSE LET n == Len(st)
           top == st[n]
       IN IF top.fetched /\ top.todo # <<>>
            THEN [st EXCEPT ![n].todo = Tail(top.todo)]
                 \o <<Frame(Head(top.todo).id, Head(top.todo).type, <<>>, <<>>)>>
            ELSE st

\* File.findById(req.params.id)
DeleteFileLoad(c) ==
  IF ~Exists(c.files, c.r.id)
    THEN Fin(c, "notfound")
    ELSE IF Denied(c) THEN Fin(c, "denied")
    ELSE LET file == c.files[c.r.id]
             r == [c.r EXCEPT !.file = file, !.projectId = file.projectId,
                              !.type = file.type, !.oldPath = file.path,
                              !.stack = <<Frame(c.r.id, file.type, <<>>, <<>>)>>]
         IN [c EXCEPT !.r = [r EXCEPT !.pc = IF file.type = "folder"
                                               THEN "df_collect" ELSE "df_delete"]]

\* const children = await File.find({ parentId: folderId })
DeleteFileCollect(c) ==
  LET st == c.r.stack
      n == Len(st)
      st2 == CollectNext([st EXCEPT ![n].fetched = TRUE,
                                    ![n].todo = FolderDocs(c.files, st[n].node)])
  IN IF Len(st2) > MaxDepth THEN Diverge(c)
     ELSE IF st2 = <<>>
       THEN [c EXCEPT !.r.pc = "df_delete",
                      !.r.stack = <<Frame(c.r.id, c.r.type, <<>>, <<>>)>>]
       ELSE [c EXCEPT !.r.stack = st2]

\* One awaited operation of file.deleteRecursively(): File.find for a folder
\* that has not looked for its children yet, this.deleteOne() otherwise.
DeleteFileDelete(c) ==
  LET st == c.r.stack
      n == Len(st)
      top == st[n]
  IN IF top.type = "folder" /\ ~top.fetched
       THEN Continue(c, DeleteNext([st EXCEPT ![n].fetched = TRUE,
                                      ![n].todo = ChildDocs(c.files, top.node)]),
                     "df_meta")
       ELSE IF WriteFails(c) THEN Fin(c, "error")
       ELSE Continue([Wrote(c) EXCEPT !.files = [@ EXCEPT ![top.node] = NoFile]],
                     DeleteNext(WithoutTop(st)), "df_meta")

\* Project.findById, File.countDocuments({ projectId, type: "file" }),
\* File.aggregate, project.save
DeleteFileMeta(c) ==
  SaveTotal(c, CountDocuments(c.files, c.r.projectId, {"file"}))

\* ---------------------------------------------------- duplicateProject
\* File.find({ projectId: originalProject._id })
ProjectDocs(fs, p) ==
  LET ids == SeqOfSet({ i \in Live(fs) : fs[i].projectId = p })
  IN [j \in 1..Len(ids) |-> [id |-> ids[j], doc |-> fs[ids[j]]]]

\* Project.findById(req.params.id); a project of another user is copied only
\* when it is public, and no project of the model is.
DuplicateFind(c) ==
  IF c.r.projectId > c.nProjects THEN Fin(c, "notfound")
  ELSE IF c.owner[c.r.projectId] # c.r.user THEN Fin(c, "denied")
  ELSE To(c, "dp_create")

\* Project.create
DuplicateCreate(c) ==
  [c EXCEPT !.nProjects = @ + 1,
            !.owner = [@ EXCEPT ![c.nProjects + 1] = c.r.user],
            !.r.target = c.nProjects + 1, !.r.pc = "dp_list"]

\* The first entry from position k on whose parentId is set, Len + 1 if none.
RECURSIVE NextLinked(_, _)
NextLinked(list, k) ==
  IF k > Len(list) THEN k
  ELSE IF list[k].doc.parentId # Null THEN k
  ELSE NextLinked(list, k + 1)

\* The second pass starts (or, with nothing to link, the metadata update).
DuplicateLink(c, list) ==
  LET k == NextLinked(list, 1)
  IN [c EXCEPT !.r.k = k, !.r.pc = IF k > Len(list) THEN "dp_meta" ELSE "dp_link"]

\* const originalFiles = await File.find(...)
DuplicateList(c) ==
  LET list == ProjectDocs(c.files, c.r.projectId)
      c2 == [c EXCEPT !.r.list = list, !.r.map = [i \in Ids |-> 0]]
  IN IF list = <<>> THEN To(c2, "dp_meta")
     ELSE [c2 EXCEPT !.r.k = 1, !.r.pc = "dp_copy"]

\* First pass: new File({ ..., parentId: null, path: originalFile.path,
\* content: originalFile.content }).save(); the s3Key is not copied.
DuplicateCopy(c) ==
  LET e == c.r.list[c.r.k]
      doc == [e.doc EXCEPT !.projectId = c.r.target, !.parentId = Null]
  IN IF WriteFails(c) THEN Fin(c, "error")
     ELSE IF ~IndexOk(c.files, c.nextId, doc) THEN Fin(c, "dupkey")
     ELSE LET c2 == [Wrote(c) EXCEPT !.files = [@ EXCEPT ![c.nextId] = doc],
                                     !.contents = [@ EXCEPT ![c.nextId] =
                                       [NoBlob EXCEPT !.content = c.contents[e.id].content]],
                                     !.nextId = @ + 1,
                                     !.r.map = [@ EXCEPT ![e.id] = c.nextId]]
          IN IF c.r.k < Len(c.r.list)
               THEN [c2 EXCEPT !.r.k = @ + 1]
               ELSE DuplicateLink(c2, c.r.list)

\* idMapping[originalFile.parentId.toString()], undefined for an id that is
\* no key of the mapping; the update then leaves parentId null.
Mapped(map, id) == IF id \in Ids /\ map[id] # 0 THEN map[id] ELSE Null

\* Second pass: File.findByIdAndUpdate(newFileId, { parentId: newParentId })
DuplicateUpdate(c) ==
  LET e == c.r.list[c.r.k]
      new == c.r.map[e.id]
      par == Mapped(c.r.map, e.doc.parentId)
      k2 == NextLinked(c.r.list, c.r.k + 1)
      next == [Wrote(c) EXCEPT !.r.k = k2,
                 !.r.pc = IF k2 > Len(c.r.list) THEN "dp_meta" ELSE "dp_link"]
  IN IF WriteFails(c) THEN Fin(c, "error")
     ELSE IF ~Exists(c.files, new) THEN next
     ELSE IF ~IndexOk(c.files, new, [c.files[new] EXCEPT !.parentId = par])
       THEN Fin(c, "dupkey")
     ELSE [next EXCEPT !.files = [@ EXCEPT ![new].parentId = par]]

\* duplicatedProject.metadata.totalFiles = originalFiles.length;
\* duplicatedProject.save
DuplicateMeta(c) ==
  Fin([c EXCEPT !.totalFiles = [@ EXCEPT ![c.r.target] = Len(c.r.list)]], "ok")

\* ------------------------------------------------------- handler steps
\* The code of a handler from one awaited store operation to the next.
StepFn(c) ==
  LET pc == c.r.pc
  IN CASE pc = "cp_create" -> CreateProjectCreate(c)
       [] pc = "cp_file" -> CreateProjectFile(c)
       [] pc = "cp_meta" -> CreateProjectMeta(c)
       [] pc = "cf_project" -> CreateFileProject(c)
       [] pc = "cf_parent" -> CreateFileParent(c)
       [] pc = "cf_exists" -> CreateFileExists(c)
       [] pc = "cf_insert" -> CreateFileInsert(c)
       [] pc = "cf_meta" -> CreateFileMeta(c)
       [] pc = "uf_auth" -> AuthorizeFile(c, "uf_load")
       [] pc = "uf_load" -> UpdateFileLoad(c)
       [] pc = "uf_nparent" -> UpdateFileNameParent(c)
       [] pc = "uf_nexists" -> UpdateFileNameExists(c)
       [] pc = "uf_content" -> UpdateFileContent(c)
       [] pc = "uf_mparent" -> UpdateFileMoveParent(c)
       [] pc = "uf_mexists" -> UpdateFileMoveExists(c)
       [] pc = "uf_save" -> UpdateFileSave(c)
       [] pc = "uf_cascade" -> CascadeStep(c, "uf_meta")
       [] pc = "uf_meta" -> UpdateFileMeta(c)
       [] pc = "mf_auth" -> AuthorizeFile(c, "mf_load")
       [] pc = "mf_load" -> MoveFileLoad(c)
       [] pc = "mf_parent" -> MoveFileParent(c)
       [] pc = "mf_save" -> MoveFileSave(c)
       [] pc = "mf_cascade" -> CascadeStep(c, "mf_return")
       [] pc = "df_auth" -> AuthorizeFile(c, "df_load")
       [] pc = "df_load" -> DeleteFileLoad(c)
       [] pc = "df_collect" -> DeleteFileCollect(c)
       [] pc = "df_delete" -> DeleteFileDelete(c)
       [] pc = "df_meta" -> DeleteFileMeta(c)
       [] pc = "dp_find" -> DuplicateFind(c)
       [] pc = "dp_create" -> DuplicateCreate(c)
       [] pc = "dp_list" -> DuplicateList(c)
       [] pc = "dp_copy" -> DuplicateCopy(c)
       [] pc = "dp_link" -> DuplicateUpdate(c)
       [] pc = "dp_meta" -> DuplicateMeta(c)
       [] OTHER -> c

\* moveTo returns and moveFile answers without another await.
Settle(c) == IF c.r.pc = "mf_return" THEN Fin(c, "ok") ELSE c

Step(c) == Settle(StepFn(c))

Halted(r) == r.pc \in {"idle", "done", "diverged", "toolong"}

\* The handler run from c until it answers (or is known never to).
RECURSIVE Run(_)
Run(c) == IF Halted(c.r) THEN c ELSE Run(Step(c))

\* ------------------------------------------- requests served one at a time
Free(s) == req[s].pc \in {"idle", "done"}

\* Ids a caller can name: those handed out so far and one that never was.
KnownIds == { i \in Ids : i < nextId } \cup {Ghost}

\* A request that left the store as it was is not followed up: the requests
\* after it would find the store that the requests tried in its place find.
Productive == req[1].pc = "idle" \/ (req[1].pc = "done" /\ req[1].changed)

\* Slot 1 receives request r and serves it to its answer; fail is the set of
\* failure injections tried.
Serve(r, fail) ==
  /\ Productive
  /\ nReq < MaxRequests
  /\ \E f \in fail :
       LET c == Run(Ctx(files, nextId, nProjects, [r EXCEPT !.failAt = f]))
       IN /\ c.r.pc # "toolong"
          /\ files' = c.files
          /\ nextId' = c.nextId
          /\ nProjects' = c.nProjects
          /\ contents' = c.contents
          /\ s3' = c.s3
          /\ totalFiles' = c.totalFiles
          /\ owner' = c.owner
          /\ editor' = editor
          /\ req' = [req EXCEPT ![1] =
                       [c.r EXCEPT !.changed = c.files # files
                                               \/ c.nProjects # nProjects
                                               \/ c.contents # contents
                                               \/ c.s3 # s3]]
          /\ nReq' = nReq + 1

NewCreateProject(list) ==
  [Idle EXCEPT !.op = "createProject", !.pc = "cp_create", !.list = list]

NewDuplicateProject(p) ==
  [Idle EXCEPT !.op = "duplicateProject", !.pc = "dp_find", !.projectId = p]

NewCreateFile(name, p, par, t) ==
  [Idle EXCEPT !.op = "createFile", !.pc = "cf_project", !.name = name,
               !.projectId = p, !.parentId = par, !.type = t]

NewUpdateFile(id, name, par) ==
  [Idle EXCEPT !.op = "updateFile", !.pc = "uf_auth", !.id = id, !.name = name,
               !.parentId = par]

NewMoveFile(id, name, par) ==
  [Idle EXCEPT !.op = "moveFile", !.pc = "mf_auth", !.id = id, !.name = name,
               !.parentId = par]

NewDeleteFile(id) ==
  [Idle EXCEPT !.op = "deleteFile", !.pc = "df_auth", !.id = id]

\* The ids a request may leave in the store stay within Ids.
RoomFor(n) == nextId - 1 + n <= MaxNodes

ProjectSize(p) == Cardinality({ i \in Live(files) : files[i].projectId = p })

CreateProject(fail) ==
  /\ nProjects < MaxProjects
  /\ \E list \in ClientLists : RoomFor(Len(list)) /\ Serve(NewCreateProject(list), fail)

DuplicateProject(fail) ==
  /\ nProjects < MaxProjects
  /\ \E p \in ProjectIds : RoomFor(ProjectSize(p)) /\ Serve(NewDuplicateProject(p), fail)

CreateFile(fail) ==
  /\ RoomFor(1)
  /\ \E name \in Names, p \in ProjectIds, par \in KnownIds \cup {Absent},
        t \in {"file", "folder"} :
       Serve(NewCreateFile(name, p, par, t), fail)

UpdateFile(fail) ==
  \E id \in KnownIds, name \in Names \cup {NoName}, par \in KnownIds \cup {Absent} :
    Serve(NewUpdateFile(id, name, par), fail)

MoveFile(fail) ==
  \E id \in KnownIds, name \in Names \cup {NoName}, par \in KnownIds \cup {Absent} :
    Serve(NewMoveFile(id, name, par), fail)

DeleteFile(fail) ==
  \E id \in KnownIds : Serve(NewDeleteFile(id), fail)

Init ==
  /\ files = [i \in Ids |-> NoFile]
  /\ nextId = 1
  /\ nProjects = 0
  /\ req = [s \in Slots |-> Idle]
  /\ nReq = 0
  /\ contents = [i \in Ids |-> NoBlob]
  /\ s3 = [i \in Ids |-> NoContent]
  /\ totalFiles = [p \in ProjectIds |-> 0]
  /\ owner = [p \in ProjectIds |-> NoUser]
  /\ editor = EditorInit

Next ==
  \/ CreateProject({0})
  \/ DuplicateProject({0})
  \/ CreateFile({0})
  \/ UpdateFile({0})
  \/ MoveFile({0})
  \/ DeleteFile({0})

Spec == Init /\ [][Next]_vars

\* ------------------------------------------------- store failures
\* The same requests, each with a write that the store may fail.
FailAts == 0..MaxFailAt

NextFail ==
  \/ CreateProject(FailAts)
  \/ DuplicateProject(FailAts)
  \/ CreateFile(FailAts)
  \/ UpdateFile(FailAts)
  \/ MoveFile(FailAts)
  \/ DeleteFile(FailAts)

SpecFail == Init /\ [][NextFail]_vars

\* ------------------------------------------------- concurrent requests
\* Two requests sent against a freshly created project and served at the same
\* time: the steps of their handlers interleave at every awaited operation.
\* Each of the two is a request that is answered when it is served alone.
RaceSetup == nReq = 0 /\ CreateProject({0})

Sent ==
  LET ids == Live(files)
      pars == ids \cup {Absent}
      ps == 1..nProjects
  IN { NewCreateFile(name, p, par, t) :
         name \in Names, p \in ps, par \in pars, t \in {"file", "folder"} }
     \cup { NewUpdateFile(id, name, par) :
              id \in ids, name \in Names \cup {NoName}, par \in pars }
     \cup { NewMoveFile(id, name, par) :
              id \in ids, name \in Names \cup {NoName}, par \in pars }
     \cup { NewDeleteFile(id) : id \in ids }

OpRank(r) ==
  CASE r.op = "createFile" -> 1 [] r.op = "updateFile" -> 2
    [] r.op = "moveFile" -> 3 [] OTHER -> 4

Creates(r) == IF r.op = "createFile" THEN 1 ELSE 0

\* The request with the answer it gets when served alone.
WithAlone(r) ==
  LET c == Run(Ctx(files, nextId, nProjects, r))
  IN [r EXCEPT !.alone = [res |-> IF c.r.pc = "done" THEN c.r.res ELSE c.r.pc,
                          path |-> c.r.newPath,
                          projectId |-> c.r.projectId]]

StartRace ==
  /\ nReq = 1
  /\ req[2].pc = "idle"
  /\ \E r1, r2 \in Sent :
       /\ OpRank(r1) <= OpRank(r2)
       /\ RoomFor(Creates(r1) + Creates(r2))
       /\ req' = [req EXCEPT ![1] = WithAlone(r1), ![2] = WithAlone(r2)]
       /\ req'[1].alone.res \notin {"toolong", "diverged"}
       /\ req'[2].alone.res \notin {"toolong", "diverged"}
  /\ nReq' = nReq + 2
  /\ UNCHANGED <<files, nextId, nProjects, contents, s3, totalFiles, owner,
                 editor>>

\* The handler in slot s runs up to its next awaited operation.
Advance(s) ==
  /\ req[2].pc # "idle"
  /\ ~Halted(req[s])
  /\ LET c == Step(Ctx(files, nextId, nProjects, req[s]))
     IN /\ c.r.pc # "toolong"
        /\ files' = c.files
        /\ nextId' = c.nextId
        /\ nProjects' = c.nProjects
        /\ contents' = c.contents
        /\ s3' = c.s3
        /\ totalFiles' = c.totalFiles
        /\ owner' = c.owner
        /\ editor' = editor
        /\ req' = [req EXCEPT ![s] = c.r]
  /\ UNCHANGED nReq

NextConc == RaceSetup \/ StartRace \/ Advance(1) \/ Advance(2)

SpecConc == Init /\ [][NextConc]_vars

\* errorHandler: the store's duplicate-key error reaches the caller as a
\* conflict, as the handlers' own "already exists" answer does.
ReportsConflict(res) == res \in {"conflict", "dupkey"}

\* ------------------------------------------------- a populated project
\* ------------------------------------------------- the name validators
\* The requests as the routes receive them: the validation chain of the
\* route runs on the name of the body before the handler does.
RawNames == { <<"a">>, <<" ", "a">>, <<" ">>, <<"a", "/", "a">>, <<"*">> }

\* The characters the pattern /^[^<>:"/\\|?*\x00-\x1f]+$/ excludes (of the
\* control characters, the tab).
Forbidden == { "<", ">", ":", "\"", "/", "\\", "|", "?", "*", "\t" }

Whitespace == { " ", "\t" }

RECURSIVE TrimStart(_)
TrimStart(s) ==
  IF s # <<>> /\ s[1] \in Whitespace THEN TrimStart(Tail(s)) ELSE s

RECURSIVE TrimEnd(_)
TrimEnd(s) ==
  IF s # <<>> /\ s[Len(s)] \in Whitespace
    THEN TrimEnd(SubSeq(s, 1, Len(s) - 1)) ELSE s

\* .trim()
Trim(s) == TrimEnd(TrimStart(s))

\* .matches(/^[^<>:"/\\|?*\x00-\x1f]+$/)
NameChars(s) == s # <<>> /\ \A k \in 1..Len(s) : s[k] \notin Forbidden

\* fileValidation.create: body("name").trim().isLength({ min: 1, max: 255 })
\* .matches(...). No name of the model is longer than 255.
FileValidationCreate(raw) == Len(Trim(raw)) >= 1 /\ NameChars(Trim(raw))

\* fileValidation.update: the same chain behind .optional().
FileValidationUpdate(raw) ==
  raw = NoName \/ (Len(Trim(raw)) >= 1 /\ NameChars(Trim(raw)))

\* fileValidation.move: body("name").optional().trim().isLength(...) only.
FileValidationMove(raw) == raw = NoName \/ Len(Trim(raw)) >= 1

\* handleValidationErrors answers 400 before the handler when the chain
\* failed; otherwise the handler is served with the trimmed name.
Validated(r, passed) ==
  IF passed
    THEN Serve([r EXCEPT !.name = Trim(@)], {0})
    ELSE /\ Productive
         /\ nReq < MaxRequests
         /\ req' = [req EXCEPT ![1] = [r EXCEPT !.pc = "done", !.res = "invalid"]]
         /\ nReq' = nReq + 1
         /\ UNCHANGED <<files, nextId, nProjects, contents, s3, totalFiles, owner,
                        editor>>

PostFile ==
  /\ RoomFor(1)
  /\ \E raw \in RawNames, p \in ProjectIds, par \in KnownIds \cup {Absent},
        t \in {"file", "folder"} :
       Validated(NewCreateFile(raw, p, par, t), FileValidationCreate(raw))

PutFile ==
  \E id \in KnownIds, raw \in RawNames \cup {NoName}, par \in KnownIds \cup {Absent} :
    Validated(NewUpdateFile(id, raw, par), FileValidationUpdate(raw))

PutFileMove ==
  \E id \in KnownIds, raw \in RawNames \cup {NoName}, par \in KnownIds \cup {Absent} :
    Validated(NewMoveFile(id, raw, par), FileValidationMove(raw))

NextNames == CreateProject({0}) \/ PostFile \/ PutFile \/ PutFileMove

SpecNames == Init /\ [][NextNames]_vars

\* ------------------------------------------------ requests with content
\* createFile and updateFile with the content of the body, absent or given.
PostFileContent ==
  /\ RoomFor(1)
  /\ \E name \in Names, p \in ProjectIds, par \in KnownIds \cup {Absent},
        t \in {"file", "folder"}, content \in Contents \cup {Absent} :
       Serve([NewCreateFile(name, p, par, t) EXCEPT !.content = content], {0})

PutFileContent ==
  \E id \in KnownIds, name \in Names \cup {NoName}, par \in KnownIds \cup {Absent},
     content \in Contents \cup {Absent} :
    Serve([NewUpdateFile(id, name, par) EXCEPT !.content = content], {0})

NextContent == CreateProject({0}) \/ PostFileContent \/ PutFileContent

SpecContent == Init /\ [][NextContent]_vars

\* ------------------------------------------------- duplicates of projects
\* duplicateProject served whenever the documents it leaves in the store
\* stay within Ids: a copy that stops early leaves fewer than the source has.
DuplicateWithin ==
  /\ nProjects < MaxProjects
  /\ \E p \in ProjectIds : Serve(NewDuplicateProject(p), {0})
  /\ nextId' - 1 <= MaxNodes

NextDup == CreateProject({0}) \/ CreateFile({0}) \/ DuplicateWithin

SpecDup == Init /\ [][NextDup]_vars

\* ------------------------------------------- projects saved by the editor
\* The file maps of the editor, as the sequences of their keys: paths of
\* files whose extension getFileType maps to a language of the schema.
FrontendMaps ==
  { << <<"a">> >>,
    << <<"a", "/", "a">> >>,
    << <<"a">>, <<"a", "/", "a">> >>,
    << <<"a">>, <<"a", "$", "&">> >> }

Untitled == <<"u", "n", "t", "i", "t", "l", "e", "d">>

\* path.split("/").pop()
RECURSIVE LastSegment(_)
LastSegment(path) ==
  IF IndexOf(path, Slash) = 0 THEN path
  ELSE LastSegment(SubSeq(path, IndexOf(path, Slash) + 1, Len(path)))

\* convertFrontendFiles: one entry per key of the map, of type "file", named
\* by the last segment of its path.
ConvertFrontendFiles(paths) ==
  [k \in 1..Len(paths) |->
     [path |-> paths[k],
      name |-> IF LastSegment(paths[k]) = <<>> THEN Untitled
               ELSE LastSegment(paths[k]),
      type |-> "file", lang |-> TRUE]]

\* createProject with the converted files of the editor; the answered
\* request keeps the list it was sent with.
PostProject ==
  /\ nProjects < MaxProjects
  /\ Productive
  /\ nReq < MaxRequests
  /\ \E paths \in FrontendMaps :
       LET list == ConvertFrontendFiles(paths)
           c == Run(Ctx(files, nextId, nProjects, NewCreateProject(list)))
       IN /\ RoomFor(Len(list))
          /\ files' = c.files
          /\ nextId' = c.nextId
          /\ nProjects' = c.nProjects
          /\ contents' = c.contents
          /\ s3' = c.s3
          /\ totalFiles' = c.totalFiles
          /\ owner' = c.owner
          /\ editor' = editor
          /\ req' = [req EXCEPT ![1] = [c.r EXCEPT !.changed = TRUE, !.list = list]]
          /\ nReq' = nReq + 1

NextLists == PostProject \/ CreateFile({0}) \/ DeleteFile({0})

SpecLists == Init /\ [][NextLists]_vars

\* ------------------------------------------------- requests of two users
\* Every request is sent by one of the users, req.user of the handlers.
As(u, r) == [r EXCEPT !.user = u]

UserCreateFile ==
  /\ RoomFor(1)
  /\ \E u \in Users, name \in Names, p \in ProjectIds,
        par \in KnownIds \cup {Absent}, t \in {"file", "folder"} :
       Serve(As(u, NewCreateFile(name, p, par, t)), {0})

UserUpdateFile ==
  \E u \in Users, id \in KnownIds, name \in Names \cup {NoName},
     par \in KnownIds \cup {Absent} :
    Serve(As(u, NewUpdateFile(id, name, par)), {0})

UserMoveFile ==
  \E u \in Users, id \in KnownIds, name \in Names \cup {NoName},
     par \in KnownIds \cup {Absent} :
    Serve(As(u, NewMoveFile(id, name, par)), {0})

UserDeleteFile ==
  \E u \in Users, id \in KnownIds : Serve(As(u, NewDeleteFile(id)), {0})

\* The store after two createProject requests: user 1 created project 1
\* without files, user 2 project 2 with the folder "a".
OwnersFiles ==
  [i \in Ids |->
     IF i = 1 THEN [name |-> <<"a">>, projectId |-> 2, parentId |-> Null,
                    type |-> "folder", path |-> <<"a">>]
     ELSE NoFile]

InitOwners ==
  /\ files = OwnersFiles
  /\ nextId = 2
  /\ nProjects = 2
  /\ req = [s \in Slots |-> Idle]
  /\ nReq = 0
  /\ contents = [i \in Ids |-> NoBlob]
  /\ s3 = [i \in Ids |-> NoContent]
  /\ totalFiles = [p \in ProjectIds |-> IF p = 2 THEN 1 ELSE 0]
  /\ owner = [p \in ProjectIds |-> p]
  /\ editor = EditorInit

NextOwners == UserCreateFile \/ UserUpdateFile \/ UserMoveFile \/ UserDeleteFile

SpecOwners == InitOwners /\ [][NextOwners]_vars

\* The store after createProject with the folder "a" and two createFile under
\* it: the folder with the files "a/a" and "a/a$&". Renames, moves and
\* deletes are served on it.
TreeFiles ==
  [i \in Ids |->
     CASE i = 1 -> [name |-> <<"a">>, projectId |-> 1, parentId |-> Null,
                    type |-> "folder", path |-> <<"a">>]
       [] i = 2 -> [name |-> <<"a">>, projectId |-> 1, parentId |-> 1,
                    type |-> "file", path |-> <<"a", "/", "a">>]
       [] i = 3 -> [name |-> <<"a", "$", "&">>, projectId |-> 1, parentId |-> 1,
                    type |-> "file", path |-> <<"a", "/", "a", "$", "&">>]
       [] OTHER -> NoFile]

InitTree ==
  /\ files = TreeFiles
  /\ nextId = 4
  /\ nProjects = 1
  /\ req = [s \in Slots |-> Idle]
  /\ nReq = 0
  /\ contents = [i \in Ids |-> NoBlob]
  /\ s3 = [i \in Ids |-> NoContent]
  /\ totalFiles = [p \in ProjectIds |-> IF p = 1 THEN 2 ELSE 0]
  /\ owner = [p \in ProjectIds |-> IF p = 1 THEN 1 ELSE NoUser]
  /\ editor = EditorInit

NextTree == UpdateFile({0}) \/ MoveFile({0}) \/ DeleteFile({0})

SpecTree == InitTree /\ [][NextTree]_vars

\* ------------------------------------------------------- buildFileTree
\* Code points of the characters in use.
CharCode(ch) ==
  CASE ch = "$" -> 36 [] ch = "&" -> 38 [] ch = "/" -> 47 [] ch = "a" -> 97
    [] OTHER -> 0

\* a < b in the store's string order.
RECURSIVE StrLess(_, _)
StrLess(a, b) ==
  IF b = <<>> THEN FALSE
  ELSE IF a = <<>> THEN TRUE
  ELSE IF a[1] # b[1] THEN CharCode(a[1]) < CharCode(b[1])
  ELSE StrLess(Tail(a), Tail(b))

\* Ordering by name alone.
SortsBefore_ByName(fs, i, j) ==
  \/ StrLess(fs[i].name, fs[j].name)
  \/ fs[i].name = fs[j].name /\ i < j

\* .sort({ type: -1, name: 1 }): "folder" before "file", then by name; ties
\* keep the order of insertion.
SortsBefore(fs, i, j) ==
  \/ fs[i].type = "folder" /\ fs[j].type = "file"
  \/ fs[i].type = fs[j].type /\ StrLess(fs[i].name, fs[j].name)
  \/ fs[i].type = fs[j].type /\ fs[i].name = fs[j].name /\ i < j

RECURSIVE Sorted(_, _)
Sorted(fs, S) ==
  IF S = {} THEN <<>>
  ELSE LET m == CHOOSE i \in S : \A j \in S \ {i} : SortsBefore(fs, i, j)
       IN <<m>> \o Sorted(fs, S \ {m})

\* One level taken without the projectId filter.
TreeLevel_AnyProject(fs, p, parentId) ==
  Sorted(fs, { i \in Live(fs) : fs[i].parentId = parentId })

\* One level of the tree: this.find({ projectId, parentId }).sort(...)
TreeLevel(fs, p, parentId) ==
  Sorted(fs, { i \in Live(fs) : fs[i].projectId = p /\ fs[i].parentId = parentId })

\* The ids of the tree buildFileTree(projectId, parentId) returns, in the
\* order of a walk through it: each node, then its children.
RECURSIVE BuildFileTree(_, _, _)
BuildFileTree(fs, p, parentId) ==
  LET level == TreeLevel(fs, p, parentId)
      Walk[k \in 0..Len(level)] ==
        IF k = 0 THEN <<>>
        ELSE Walk[k - 1] \o <<level[k]>>
             \o (IF fs[level[k]].type = "folder"
                   THEN BuildFileTree(fs, p, level[k]) ELSE <<>>)
  IN Walk[Len(level)]

TreeIds(fs) ==
  UNION { { BuildFileTree(fs, p, Null)[k] :
              k \in 1..Len(BuildFileTree(fs, p, Null)) } : p \in ProjectIds }

\* ------------------------------------------------------------ the claims
\* The document reached from i by following parentId k times, 0 when the
\* chain ends before.
RECURSIVE Up(_, _, _)
Up(fs, i, k) ==
  IF k = 0 THEN i
  ELSE IF ~Exists(fs, i) THEN 0
  ELSE Up(fs, fs[i].parentId, k - 1)

\* The transitive descendants of x by parentId.
Desc(fs, x) == { d \in Live(fs) : \E k \in 1..MaxNodes : Up(fs, d, k) = x }

Answered(s) == req[s].pc = "done"

IsRename(r) == r.op \in {"updateFile", "moveFile"}

\* C1 -- Path consistency: once the requests served so far are answered,
\* every node's path is its parent's path, "/" and its name, and a root
\* node's path is its name.
C1_PathConsistency ==
  (\A s \in Slots : req[s].pc \in {"idle", "done"}) =>
    \A n \in Live(files) :
      IF files[n].parentId = Null
        THEN files[n].path = files[n].name
        ELSE Exists(files, files[n].parentId)
             => files[n].path = files[files[n].parentId].path \o Slash \o files[n].name

\* C2 -- Uniqueness: within one project no two nodes share a path and no two
\* nodes with the same parentId share a name.
C2_Uniqueness ==
  \A i, j \in Live(files) :
    (i # j /\ files[i].projectId = files[j].projectId) =>
      /\ files[i].path # files[j].path
      /\ files[i].parentId = files[j].parentId => files[i].name # files[j].name

\* A write that would have broken uniqueness reached the store and was refused.
C2_Witness == Answered(1) /\ req[1].res = "dupkey"

\* C3 -- No cycles: following parentId from any node ends at a root without
\* coming back to the node (a move under the node itself or one of its
\* descendants is refused).
C3_NoCycles == \A n \in Live(files) : n \notin Desc(files, n)

\* C4 -- Parent validity: every non-null parentId names an existing folder of
\* the same project.
C4_ParentValid ==
  \A n \in Live(files) :
    files[n].parentId # Null =>
      /\ Exists(files, files[n].parentId)
      /\ files[files[n].parentId].type = "folder"
      /\ files[files[n].parentId].projectId = files[n].projectId

\* Slot 1 was served a rename or move of a folder, answered with res.
RenamedFolder(res) ==
  /\ nReq' = nReq + 1
  /\ IsRename(req'[1])
  /\ req'[1].pc = "done" /\ req'[1].res = res
  /\ Exists(files, req'[1].id) /\ files[req'[1].id].type = "folder"

\* C5 -- Cascade correctness: after a successful rename or move of a folder
\* from path P to path Q, every descendant whose path was P/s has path Q/s.
C5_CascadeCorrect ==
  [][RenamedFolder("ok") =>
       LET x == req'[1].id
           P == files[x].path
           Q == files'[x].path
       IN \A d \in Desc(files, x) :
            StartsWith(files[d].path, P \o Slash) =>
              files'[d].path = Q \o SubSeq(files[d].path, Len(P) + 1,
                                           Len(files[d].path))]_vars

\* C6 -- Cascade frame: a rename or move of node X changes no node other than
\* X and its transitive descendants, whatever their paths look like.
C6_CascadeFrame ==
  [][(nReq' = nReq + 1 /\ IsRename(req'[1])) =>
       \A n \in Ids \ ({req'[1].id} \cup Desc(files, req'[1].id)) :
          files'[n] = files[n]]_vars

\* A folder with a child was renamed, next to a node that is no descendant
\* and whose path begins with the folder's old path.
C6_Witness ==
  /\ Answered(1) /\ IsRename(req[1]) /\ req[1].res = "ok"
  /\ req[1].type = "folder" /\ req[1].oldPath # req[1].newPath
  /\ Desc(files, req[1].id) # {}
  /\ \E n \in Live(files) \ ({req[1].id} \cup Desc(files, req[1].id)) :
       /\ StartsWith(files[n].path, req[1].oldPath)
       /\ files[n].projectId = req[1].projectId

\* Slot 1 was served a rename or move of a folder that was answered as failed.
FailedRename ==
  /\ nReq' = nReq + 1
  /\ IsRename(req'[1])
  /\ req'[1].pc = "done" /\ req'[1].res # "ok"
  /\ Exists(files, req'[1].id) /\ files[req'[1].id].type = "folder"

\* C7 -- Cascade atomicity: when a rename or move of a folder fails, the
\* paths of the folder and its descendants are all the old ones or all the
\* new ones, never a mixture.
C7_CascadeAtomic ==
  [][FailedRename =>
       LET x == req'[1].id
           P == files[x].path
           Q == files'[x].path
           sub == {x} \cup Desc(files, x)
       IN \/ \A n \in sub : files'[n].path = files[n].path
          \/ \A d \in Desc(files, x) :
               StartsWith(files[d].path, P \o Slash) =>
                 files'[d].path = Q \o SubSeq(files[d].path, Len(P) + 1,
                                              Len(files[d].path))]_vars

\* C8 -- Recursive delete: after deleteFile on X, X and its descendants are
\* gone from the store and from the tree, and all other nodes are as before.
C8_DeleteSubtree ==
  [][(nReq' = nReq + 1 /\ req'[1].op = "deleteFile" /\ req'[1].pc = "done"
        /\ req'[1].res = "ok") =>
       LET sub == {req'[1].id} \cup Desc(files, req'[1].id)
       IN /\ \A n \in sub : ~Exists(files', n) /\ n \notin TreeIds(files')
          /\ \A n \in Ids \ sub : files'[n] = files[n]]_vars

\* Both racing requests are answered, each is a create, rename or move, and
\* each, served alone, would have put its node at the same path of the same
\* project.
Creating(r) == r.op \in {"createFile", "updateFile", "moveFile"}

SameTarget ==
  /\ Answered(1) /\ Answered(2)
  /\ Creating(req[1]) /\ Creating(req[2])
  /\ req[1].alone.res = "ok" /\ req[2].alone.res = "ok"
  /\ req[1].alone.path = req[2].alone.path
  /\ req[1].alone.projectId = req[2].alone.projectId

\* The two requests act on two nodes: a create always brings its own.
DistinctNodes ==
  req[1].op = "createFile" \/ req[2].op = "createFile" \/ req[1].id # req[2].id

OneWins ==
  /\ ~(req[1].res = "ok" /\ req[2].res = "ok")
  /\ req[1].res = "ok" => ReportsConflict(req[2].res)
  /\ req[2].res = "ok" => ReportsConflict(req[1].res)

C10_Terminates ==
  \A s \in Slots :
    ~(req[s].pc = "diverged"
      /\ req[s].res \in {"uf_cascade", "mf_cascade", "df_delete"})

\* Slot 1 was served a request of operation op and answered it.
Served(op) == nReq' = nReq + 1 /\ req'[1].op = op /\ req'[1].pc = "done"

\* C11 -- createFile with a parentId that names no document, a file, or a
\* node of another project fails (not found for a missing parent, bad parent
\* for a file) and stores nothing.
C11_CreateBadParent ==
  [][(/\ Served("createFile")
      /\ req'[1].projectId \in 1..nProjects
      /\ req'[1].parentId # Absent
      /\ \/ ~Exists(files, req'[1].parentId)
         \/ files[req'[1].parentId].type # "folder"
         \/ files[req'[1].parentId].projectId # req'[1].projectId) =>
       /\ files' = files
       /\ req'[1].res # "ok"
       /\ ~Exists(files, req'[1].parentId) => req'[1].res = "notfound"
       /\ (Exists(files, req'[1].parentId)
             /\ files[req'[1].parentId].type = "file") => req'[1].res = "badparent"]_vars

\* C12 -- A successful createFile stores exactly one new node: its path is
\* the parent's path, "/" and the name when a parentId is given and the name
\* when none is, its parentId is the given parent or null, and its name,
\* type and project are the requested ones.
C12_CreateResult ==
  [][(Served("createFile") /\ req'[1].res = "ok") =>
       LET n == req'[1].id
           par == req'[1].parentId
       IN /\ ~Exists(files, n)
          /\ \A i \in Ids \ {n} : files'[i] = files[i]
          /\ files'[n] =
               [name |-> req'[1].name,
                projectId |-> req'[1].projectId,
                parentId |-> IF par = Absent THEN Null ELSE par,
                type |-> req'[1].type,
                path |-> IF par = Absent THEN req'[1].name
                         ELSE files[par].path \o Slash \o req'[1].name]]_vars

\* A node was created under a parent.
C12_Witness ==
  /\ Answered(1) /\ req[1].op = "createFile" /\ req[1].res = "ok"
  /\ req[1].parentId # Absent
  /\ Exists(files, req[1].id) /\ files[req[1].id].parentId = req[1].parentId

\* The path createFile computes for request r on store fs, <<>> when the
\* request does not get that far.
CreatePath(fs, np, r) ==
  IF r.projectId > np THEN <<>>
  ELSE IF r.parentId = Absent THEN r.name
  ELSE IF Exists(fs, r.parentId) /\ fs[r.parentId].type = "folder"
    THEN fs[r.parentId].path \o Slash \o r.name
  ELSE <<>>

\* C13 -- Conflict rejection on create: a createFile whose computed
\* (projectId, path) is occupied is answered with the conflict error and the
\* stored nodes are unchanged.
C13_CreateConflict ==
  [][(/\ Served("createFile")
      /\ CreatePath(files, nProjects, req'[1]) # <<>>
      /\ PathTaken(files, req'[1].projectId,
                   CreatePath(files, nProjects, req'[1]), 0)) =>
       /\ req'[1].res = "conflict"
       /\ files' = files /\ nextId' = nextId]_vars

\* A create under a folder was refused because the path is occupied.
C13_Witness ==
  /\ Answered(1) /\ req[1].op = "createFile" /\ req[1].res = "conflict"
  /\ req[1].parentId # Absent
  /\ \E i \in Live(files) :
       files[i].path = req[1].newPath /\ files[i].projectId = req[1].projectId

\* The parent and the name a rename or move request r asks for: an omitted
\* parentId keeps the parent, an omitted name keeps the name.
TargetParent(fs, r) == IF r.parentId = Absent THEN fs[r.id].parentId ELSE r.parentId

TargetName(fs, r) == IF r.name = NoName THEN fs[r.id].name ELSE r.name

TargetPath(fs, r) ==
  IF TargetParent(fs, r) = Null THEN TargetName(fs, r)
  ELSE fs[TargetParent(fs, r)].path \o Slash \o TargetName(fs, r)

\* r names a node, asks for another name or parent than it has, and the
\* parent it asks for is the root or a folder.
RealMove(fs, r) ==
  /\ Exists(fs, r.id)
  /\ \/ TargetParent(fs, r) = Null
     \/ Exists(fs, TargetParent(fs, r)) /\ fs[TargetParent(fs, r)].type = "folder"
  /\ \/ TargetParent(fs, r) # fs[r.id].parentId
     \/ TargetName(fs, r) # fs[r.id].name

\* Another node of the project has the path r asks for, or is a sibling of
\* that name under the parent r asks for.
Occupied(fs, r) ==
  \E j \in Live(fs) \ {r.id} :
    /\ fs[j].projectId = fs[r.id].projectId
    /\ \/ fs[j].path = TargetPath(fs, r)
       \/ fs[j].parentId = TargetParent(fs, r) /\ fs[j].name = TargetName(fs, r)

\* C14 -- Conflict rejection on rename/move: a rename or move whose resulting
\* path is occupied by another node, or whose new name is that of a sibling
\* under the target parent, is answered with a conflict and leaves the node
\* and its descendants unchanged.
C14_RenameConflict ==
  [][(/\ nReq' = nReq + 1 /\ IsRename(req'[1])
      /\ RealMove(files, req'[1]) /\ Occupied(files, req'[1])) =>
       /\ req'[1].pc = "done" /\ ReportsConflict(req'[1].res)
       /\ \A n \in {req'[1].id} \cup Desc(files, req'[1].id) :
            files'[n] = files[n]]_vars

\* C15 -- Rename without a parent argument keeps the parent: a successful
\* rename or move request with a new name and no parentId leaves the node's
\* parentId as it was and sets its path to the parent's path, "/" and the new
\* name (the new name at the root).
C15_RenameKeepsParent ==
  [][(/\ nReq' = nReq + 1 /\ IsRename(req'[1])
      /\ req'[1].pc = "done" /\ req'[1].res = "ok"
      /\ req'[1].name # NoName /\ req'[1].parentId = Absent
      /\ req'[1].name # files[req'[1].id].name) =>
       LET x == req'[1].id
           par == files[x].parentId
       IN /\ files'[x].parentId = par
          /\ files'[x].name = req'[1].name
          /\ par = Null => files'[x].path = req'[1].name
          /\ Exists(files, par) =>
               files'[x].path = files[par].path \o Slash \o req'[1].name]_vars

\* C16 -- Idempotent no-op rename: a rename or move of a node to the name
\* and the parent it has leaves the node's name, parentId and path and the
\* path of every descendant unchanged.
C16_NoOpRename ==
  [][(/\ nReq' = nReq + 1 /\ IsRename(req'[1])
      /\ Exists(files, req'[1].id)
      /\ TargetParent(files, req'[1]) = files[req'[1].id].parentId
      /\ TargetName(files, req'[1]) = files[req'[1].id].name) =>
       \A n \in {req'[1].id} \cup Desc(files, req'[1].id) :
          files'[n] = files[n]]_vars

\* The levels of the trees buildFileTree returns: the root level of every
\* project and the children of every folder in a tree.
TreeLevels(fs) ==
  { TreeLevel(fs, p, Null) : p \in ProjectIds }
  \cup { TreeLevel(fs, fs[i].projectId, i) :
           i \in { j \in TreeIds(fs) : fs[j].type = "folder" } }

\* C17 -- Tree ordering: at every level of buildFileTree's result every
\* folder precedes every file, and the folders and the files are each in
\* ascending order of name.
C17_TreeOrder ==
  \A lv \in TreeLevels(files) :
    \A k, l \in 1..Len(lv) :
      k < l =>
        /\ ~(files[lv[k]].type = "file" /\ files[lv[l]].type = "folder")
        /\ files[lv[k]].type = files[lv[l]].type
             => StrLess(files[lv[k]].name, files[lv[l]].name)

\* A level holds a folder that was inserted after a file whose name sorts
\* before the folder's.
C17_Witness ==
  \E lv \in TreeLevels(files) :
    \E k, l \in 1..Len(lv) :
      /\ k < l /\ lv[k] > lv[l]
      /\ files[lv[k]].type = "folder" /\ files[lv[l]].type = "file"
      /\ StrLess(files[lv[l]].name, files[lv[k]].name)

\* Node i of project p is reached from the root through parentId links that
\* all lead to folders of that project, in at most k links.
RECURSIVE RootPath(_, _, _, _)
RootPath(fs, p, i, k) ==
  /\ Exists(fs, i)
  /\ fs[i].projectId = p
  /\ \/ fs[i].parentId = Null
     \/ /\ k > 0
        /\ Exists(fs, fs[i].parentId)
        /\ fs[fs[i].parentId].type = "folder"
        /\ RootPath(fs, p, fs[i].parentId, k - 1)

SeqIds(t) == { t[k] : k \in 1..Len(t) }

\* C18 -- Tree content: buildFileTree(projectId) returns exactly the nodes
\* of the project reached from the root through folders, each once and
\* under its parent; other nodes are absent, and a project without nodes
\* yields the empty sequence.
C18_TreeContent ==
  \A p \in ProjectIds :
    LET t == BuildFileTree(files, p, Null) IN
      /\ SeqIds(t) = { i \in Live(files) : RootPath(files, p, i, MaxNodes) }
      /\ \A k, l \in 1..Len(t) : k # l => t[k] # t[l]
      /\ \A i \in SeqIds(t) :
           IF files[i].parentId = Null
             THEN i \in SeqIds(TreeLevel(files, p, Null))
             ELSE /\ files[i].parentId \in SeqIds(t)
                  /\ i \in SeqIds(TreeLevel(files, p, files[i].parentId))
      /\ (\A i \in Live(files) : files[i].projectId # p) => t = <<>>

\* A tree holds a nested node while a stored node of the same project,
\* not reached from the root through folders, is absent from it.
C18_Witness ==
  \E p \in ProjectIds :
    LET t == BuildFileTree(files, p, Null) IN
      /\ \E i \in SeqIds(t) : files[i].parentId # Null
      /\ \E i \in Live(files) : files[i].projectId = p /\ i \notin SeqIds(t)

\* C19 -- Name validation: createFile, a rename through updateFile and a
\* rename through moveFile all reject a name that is empty or holds one of
\* < > : " / \ | ? * or a control character, and no stored node ever has
\* such a name.
C19_NameValidation ==
  [][/\ (/\ nReq' = nReq + 1
         /\ req'[1].op \in {"createFile", "updateFile", "moveFile"}
         /\ req'[1].name # NoName
         /\ ~NameChars(Trim(req'[1].name)))
          => req'[1].res # "ok"
     /\ \A i \in Live(files') : NameChars(files'[i].name)]_vars

\* updateFile answered 400 by one of its checks: the name exists, the
\* parent folder is invalid, the destination exists.
UpdateRejected(r) ==
  r.op = "updateFile" /\ r.pc = "done" /\ r.res \in {"conflict", "badparent"}

\* C20 -- Fail-fast validation: whenever updateFile is rejected for a
\* validation reason, neither the stored node record (name, path, parentId,
\* content, version) nor the content of the file in the blob store has
\* changed.
C20_FailFast ==
  [][(nReq' = nReq + 1 /\ UpdateRejected(req'[1])) =>
       /\ files' = files
       /\ contents' = contents
       /\ s3' = s3]_vars

\* C21 -- Deleting a node id that does not exist, a second delete of a
\* deleted node included, is answered NotFound and leaves the store
\* unchanged; it is never reported as a success.
C21_DeleteMissing ==
  [][(/\ nReq' = nReq + 1
      /\ req'[1].op = "deleteFile"
      /\ ~Exists(files, req'[1].id))
       => /\ req'[1].pc = "done"
          /\ req'[1].res = "notfound"
          /\ UNCHANGED <<files, nextId, nProjects, contents, s3, totalFiles, owner>>]_vars

\* The second delete of a node was answered NotFound.
C21_Witness ==
  /\ Answered(1)
  /\ req[1].op = "deleteFile"
  /\ req[1].res = "notfound"
  /\ req[1].id \in Ids
  /\ req[1].id < nextId
  /\ ~Exists(files, req[1].id)

\* C22 -- Version counter: the metadata.version of a node never decreases,
\* and each successful content mutation through updateFile increases it by
\* exactly one.
C22_VersionCounter ==
  [][/\ \A i \in Ids : contents'[i].version >= contents[i].version
     /\ (/\ nReq' = nReq + 1
         /\ req'[1].op = "updateFile"
         /\ req'[1].pc = "done"
         /\ req'[1].res = "ok"
         /\ req'[1].content # Absent
         /\ files[req'[1].id].type = "file")
          => contents'[req'[1].id].version = contents[req'[1].id].version + 1]_vars

\* C23 -- Delete is crash-safe with respect to orphans: wherever
\* deleteRecursively on a folder stops, when no other request runs, every
\* node still present has a parentId that is null or references a node still
\* present: no node points to a parent this delete removed.
C23_DeleteNoOrphans ==
  [][(/\ nReq' = nReq + 1
      /\ req'[1].op = "deleteFile"
      /\ Exists(files, req'[1].id)
      /\ files[req'[1].id].type = "folder")
       => \A n \in Live(files') :
            \/ files'[n].parentId = Null
            \/ Exists(files', files'[n].parentId)
            \/ ~Exists(files, files'[n].parentId)]_vars

\* Slot s was served a createFile under a folder and slot t an operation
\* op on that folder or on an ancestor of it; both were answered with a
\* success.
RacedUnder(s, t, ops) ==
  /\ s # t
  /\ Answered(s) /\ Answered(t)
  /\ req[s].op = "createFile" /\ req[s].res = "ok"
  /\ req[s].parentId # Absent
  /\ req[t].op \in ops /\ req[t].res = "ok"
  /\ \E k \in 0..MaxNodes : Up(files, req[s].parentId, k) = req[t].id
       \/ req[s].parentId = req[t].id

\* C24 -- Create racing with an ancestor rename: when a createFile under
\* folder F is interleaved with a rename or move of F or of an ancestor of
\* F, then once both requests have completed the path of the created node
\* is its parent's current path + "/" + its name.
C24_CreateRenameRace ==
  \A s, t \in Slots :
    (RacedUnder(s, t, {"updateFile", "moveFile"}) /\ Exists(files, req[s].id)
       /\ Exists(files, req[s].parentId))
      => files[req[s].id].path
           = files[req[s].parentId].path \o Slash \o files[req[s].id].name

\* C25 -- Create racing with a folder delete: when a createFile under
\* folder F is interleaved with a deleteFile of F or of an ancestor of F,
\* then once both requests have completed no stored node has a parentId
\* that references a deleted node.
C25_CreateDeleteRace ==
  \A s, t \in Slots :
    RacedUnder(s, t, {"deleteFile"})
      => \A n \in Live(files) :
           files[n].parentId = Null \/ Exists(files, files[n].parentId)

\* The nodes of project p.
NodesOf(fs, p) == { i \in Live(fs) : fs[i].projectId = p }

\* f maps every node of the source to its own copy: same name, type and
\* path, under the copy of the source node's parent.
CopiedBy(f, src, new) ==
  /\ \A i, j \in src : i # j => f[i] # f[j]
  /\ { f[i] : i \in src } = new
  /\ \A i \in src :
       /\ files'[f[i]].name = files[i].name
       /\ files'[f[i]].type = files[i].type
       /\ files'[f[i]].path = files[i].path
       /\ files'[f[i]].parentId
            = IF files[i].parentId = Null THEN Null ELSE f[files[i].parentId]

\* C26 -- duplicateProject copies the tree faithfully: for every source
\* project whose nodes satisfy the uniqueness invariants (two nodes in
\* different folders may share a name), duplicateProject succeeds and the new
\* project holds exactly one copy of each source node with the same name,
\* type and path, whose parentId is the copy of the source node's parent
\* (null for root nodes).
C26_DuplicateFaithful ==
  [][(/\ nReq' = nReq + 1
      /\ req'[1].op = "duplicateProject"
      /\ req'[1].projectId \in 1..nProjects
      /\ C2_Uniqueness
      /\ \A i \in NodesOf(files, req'[1].projectId) :
           files[i].parentId = Null
             \/ files[i].parentId \in NodesOf(files, req'[1].projectId))
       => LET src == NodesOf(files, req'[1].projectId)
              new == NodesOf(files', nProjects + 1)
          IN /\ req'[1].pc = "done"
             /\ req'[1].res = "ok"
             /\ nProjects' = nProjects + 1
             /\ \E f \in [src -> Ids] : CopiedBy(f, src, new)]_vars

\* C27 -- createProject with a file list of the client persists one node
\* per entry that has a path and a name: after the request every such entry
\* has a node of the new project with its path, also when two entries in
\* different folders share a name.
C27_ListPersisted ==
  [][(/\ nReq' = nReq + 1
      /\ req'[1].op = "createProject"
      /\ req'[1].pc = "done")
       => LET list == req'[1].list IN
            \A k \in 1..Len(list) :
              (list[k].path # <<>> /\ list[k].name # <<>>)
                => \E i \in NodesOf(files', req'[1].projectId) :
                     files'[i].path = list[k].path]_vars

\* No request is in flight.
Quiet == \A s \in Slots : req[s].pc \in {"idle", "done"}

\* C28 -- Aggregate file count: whenever no request is in flight, the
\* metadata.totalFiles of a project equals the number of stored nodes of
\* type file in that project, after any sequence and any interleaving of
\* createProject, createFile and deleteFile requests.
C28_TotalFiles ==
  Quiet => \A p \in 1..nProjects :
             totalFiles[p] = CountDocuments(files, p, {"file"})

\* The project a file request addresses: the projectId of the body for
\* createFile, the project of the addressed node otherwise; 0 when there is
\* none.
Addressed(fs, np, r) ==
  IF r.op = "createFile"
    THEN IF r.projectId \in 1..np THEN r.projectId ELSE 0
    ELSE IF Exists(fs, r.id) THEN fs[r.id].projectId ELSE 0

\* The nodes and the metadata of project p are the same after the step.
ProjectUnchanged(p) ==
  /\ \A i \in Ids :
       (files[i].projectId = p \/ files'[i].projectId = p) => files'[i] = files[i]
  /\ totalFiles'[p] = totalFiles[p]

\* C29 -- Owner-only mutation: a createFile, updateFile, moveFile or
\* deleteFile request issued by a user who is not the owner of the affected
\* project is answered with access denied and leaves every node of that
\* project and the project's metadata unchanged.
C29_OwnerOnly ==
  [][(/\ nReq' = nReq + 1
      /\ req'[1].op \in {"createFile", "updateFile", "moveFile", "deleteFile"})
       => \A p \in 1..nProjects :
            owner[p] # req'[1].user
              => /\ ProjectUnchanged(p)
                 /\ Addressed(files, nProjects, req'[1]) = p
                      => req'[1].pc = "done" /\ req'[1].res = "denied"]_vars

\* ------------------------------------------------------------ the editor
\* The calls of the file explorer and of the code editor on the hook, at
\* most MaxEdits of them; the store of the server is not involved.
MaxEdits == 3

Edit(e) ==
  /\ editor' = e
  /\ UNCHANGED <<files, nextId, nProjects, req, nReq, contents, s3, totalFiles,
                 owner>>

\* The code editor writes its value, which may be empty, to the active file.
EditUpdateFile ==
  /\ editor.n < MaxEdits
  /\ editor.activePath # <<>>
  /\ \E content \in EditorContents :
       Edit(updateFile(editor, editor.activePath, content))

EditCreateFile ==
  /\ editor.n < MaxEdits
  /\ \E path \in EditorPaths :
       Edit(createFile(editor, path, NewFileContent(path)))

EditDeleteFile ==
  /\ editor.n < MaxEdits
  /\ \E path \in EditorPaths : Edit(deleteFile(editor, path))

EditRenameFile ==
  /\ editor.n < MaxEdits
  /\ \E oldPath, newPath \in EditorPaths :
       Edit(renameFile(editor, oldPath, newPath))

NextEditor == EditUpdateFile \/ EditCreateFile \/ EditDeleteFile \/ EditRenameFile

SpecEditor == Init /\ [][NextEditor]_vars

\* The keys a rename writes to.
RenameTargets(m, oldPath, newPath) ==
  { RenameTarget(k, NormalizePath(oldPath), NormalizePath(newPath)) :
      k \in { j \in KeySet(m) : j = NormalizePath(oldPath)
                \/ StartsWith(j, NormalizePath(oldPath) \o Slash) } }

\* The contents of the map, each as often as it occurs.
ContentBag(m) ==
  [c \in { m[i].content : i \in 1..Len(m) } |->
     Cardinality({ i \in 1..Len(m) : m[i].content = c })]

\* C30 -- The editor's file map is never silently overwritten: createFile
\* throws and leaves the map unchanged whenever the normalized path is
\* already a key, renameFile throws and leaves the map unchanged whenever a
\* target key already exists, whatever the content of the existing file
\* (the empty string included), and a rename that succeeds keeps the number
\* of files and the content of each file.
C30_NoSilentOverwrite ==
  [][editor'.n = editor.n + 1
       => LET call == editor'.call
              m == editor.files
          IN /\ (call.op = "createFile" /\ NormalizePath(call.path) \in KeySet(m))
                  => editor'.thrown # "" /\ editor'.files = m
             /\ (/\ call.op = "renameFile"
                 /\ RenameTargets(m, call.path, call.newPath) \cap KeySet(m) # {})
                  => editor'.thrown # "" /\ editor'.files = m
             /\ (call.op = "renameFile" /\ editor'.thrown = "")
                  => /\ Len(editor'.files) = Len(m)
                     /\ ContentBag(editor'.files) = ContentBag(m)]_vars

====
